---- MODULE Spec2Model ----
(***************************************************************************)
(* Model of the face recognition service of src/app.py: the five request   *)
(* handlers (process-image, detect-faces, register-face, attendance,       *)
(* registered-faces) over the module-level face_database, served by the    *)
(* worker threads of the threaded development server (app.run).            *)
(*                                                                         *)
(* A handler that touches no shared state is one action.  register_face    *)
(* and get_registered_faces read and write face_database in several        *)
(* statements with no lock around them, so each access of the shared       *)
(* lists is an action of its own and the threads interleave between them.  *)
(***************************************************************************)
EXTENDS Integers, Sequences, FiniteSets, TLC

\* ------------------------------------------------------------------ bounds
NumThreads == 2        \* worker threads serving requests at the same time
MaxRegistrations == 2  \* register-face requests that get past validation
MaxNameLen == 2        \* length of the raw name form field

Threads == 1..NumThreads

\* ------------------------------------------------------------ pixel grids
\* A grid is a sequence of rows, a row a sequence of pixels, a colour pixel
\* a triple of samples 0..255, a grayscale pixel one sample.
Side == 1..3

RECURSIVE SeqSum(_)
SeqSum(s) == IF s = <<>> THEN 0 ELSE Head(s) + SeqSum(Tail(s))

RECURSIVE Flatten(_)
Flatten(ss) == IF ss = <<>> THEN <<>> ELSE Head(ss) \o Flatten(Tail(ss))

Height(grid) == Len(grid)
Width(grid) == IF Len(grid) = 0 THEN 0 ELSE Len(grid[1])

\* The RGB picture stored in the fixture file number k.
FixtureGrid(k) ==
    [row \in Side |->
        [col \in Side |->
            << (40 * k + 70 * row + 9 * col) % 256,
               (200 + 13 * k + 31 * row * col) % 256,
               (5 * k * k + 90 * col + 3 * row) % 256 >>]]

Fixtures == 0..3
Grids == {FixtureGrid(k) : k \in Fixtures}

\* ------------------------------------------------------- uploaded files
\* request.files.get('image'): absent, or a file with a name and bytes; the
\* bytes either hold an encoded picture or do not parse as one.
NoFile == [present |-> FALSE, filename |-> "", decodable |-> FALSE, grid |-> <<>>]
GarbageFile == [present |-> TRUE, filename |-> "x.png", decodable |-> FALSE, grid |-> <<>>]
Picture(g) == [present |-> TRUE, filename |-> "x.png", decodable |-> TRUE, grid |-> g]
Unnamed(f) == [f EXCEPT !.filename = ""]

Files ==
    {NoFile, GarbageFile, Unnamed(GarbageFile), Unnamed(Picture(FixtureGrid(1)))}
        \cup {Picture(g) : g \in Grids}

\* ----------------------------------------------------------- form fields
\* request.form.get(key, default): the field is absent or holds a string.
\* A name is a sequence of characters so that strip() is computed.
Chars == {" ", "a"}
RawNames == UNION {[1..n -> Chars] : n \in 0..MaxNameLen}
NameFields == {[present |-> FALSE, value |-> <<>>]}
                 \cup {[present |-> TRUE, value |-> n] : n \in RawNames}

KnownTypes == {"grayscale", "blur", "sharpen", "edge"}
TypeFields == {[present |-> FALSE, value |-> ""]}
                 \cup {[present |-> TRUE, value |-> t] :
                          t \in KnownTypes \cup {"invalid_filter", ""}}

FormGet(field, default) == IF field.present THEN field.value ELSE default

RECURSIVE LStrip(_)
LStrip(s) == IF s # <<>> /\ Head(s) = " " THEN LStrip(Tail(s)) ELSE s

RECURSIVE RStrip(_)
RStrip(s) ==
    IF s # <<>> /\ s[Len(s)] = " " THEN RStrip(SubSeq(s, 1, Len(s) - 1)) ELSE s

\* str.strip()
Strip(s) == RStrip(LStrip(s))


\* --------------------------------------------------- PIL (filter) path
\* Image.open(file.stream): an RGB picture, or an exception on garbage.
ImageOpen(file) == [mode |-> "RGB", grid |-> file.grid]

Clip8(v) == IF v < 0 THEN 0 ELSE IF v > 255 THEN 255 ELSE v

\* image.convert('L'): ITU-R 601-2 luma, in the library's fixed point.
LumaRGB(p) == (19595 * p[1] + 38470 * p[2] + 7471 * p[3] + 32768) \div 65536

ConvertL(img) ==
    [mode |-> "L",
     grid |-> [r \in DOMAIN img.grid |->
                 [c \in DOMAIN img.grid[r] |-> << LumaRGB(img.grid[r][c]) >>]]]

\* ImageFilter kernels: size, scale and the weights row by row.
BLUR ==
    [size |-> 5, scale |-> 16,
     weights |-> << <<1, 1, 1, 1, 1>>, <<1, 0, 0, 0, 1>>, <<1, 0, 0, 0, 1>>,
                    <<1, 0, 0, 0, 1>>, <<1, 1, 1, 1, 1>> >>]
SHARPEN ==
    [size |-> 3, scale |-> 16,
     weights |-> << <<-2, -2, -2>>, <<-2, 32, -2>>, <<-2, -2, -2>> >>]
FIND_EDGES ==
    [size |-> 3, scale |-> 1,
     weights |-> << <<-1, -1, -1>>, <<-1, 8, -1>>, <<-1, -1, -1>> >>]

\* One output sample of a convolution, rounded to nearest and clipped.
Convolve(grid, k, r, c, ch) ==
    LET m == (k.size - 1) \div 2
        terms == [i \in 1..(k.size * k.size) |->
                    LET dr == (i - 1) \div k.size
                        dc == (i - 1) % k.size
                    IN  k.weights[dr + 1][dc + 1]
                          * grid[r - m + dr][c - m + dc][ch]]
        total == SeqSum(terms)
    IN  Clip8((2 * total + k.scale) \div (2 * k.scale))

\* image.filter(kernel): a picture smaller than the kernel is copied, and
\* so is the border of half a kernel's width; the interior is convolved.
Filter(img, k) ==
    LET g == img.grid
        m == (k.size - 1) \div 2
        h == Height(g)
        w == Width(g)
    IN  IF w < k.size \/ h < k.size
        THEN img
        ELSE [img EXCEPT !.grid =
                [r \in DOMAIN g |->
                   [c \in DOMAIN g[r] |->
                      IF r <= m \/ r > h - m \/ c <= m \/ c > w - m
                      THEN g[r][c]
                      ELSE [ch \in DOMAIN g[r][c] |-> Convolve(g, k, r, c, ch)]]]]

\* processed_image.save(buffer, format='PNG'): the container keeps the
\* size, the channel count and every sample, row by row (lossless).
PngBytes(img) ==
    << Width(img.grid), Height(img.grid), IF img.mode = "L" THEN 1 ELSE 3 >>
        \o Flatten(Flatten(img.grid))

\* base64.b64encode: three bytes become four sextets; 64 stands for '='.
RECURSIVE B64Encode(_)
B64Encode(bytes) ==
    IF bytes = <<>> THEN <<>>
    ELSE LET n == Len(bytes)
             b1 == bytes[1]
             b2 == IF n >= 2 THEN bytes[2] ELSE 0
             b3 == IF n >= 3 THEN bytes[3] ELSE 0
             v == 65536 * b1 + 256 * b2 + b3
             quad == << v \div 262144, (v \div 4096) % 64,
                        IF n >= 2 THEN (v \div 64) % 64 ELSE 64,
                        IF n >= 3 THEN v % 64 ELSE 64 >>
         IN  quad \o (IF n > 3 THEN B64Encode(SubSeq(bytes, 4, n)) ELSE <<>>)

DataUri(img) == [prefix |-> "data:image/png;base64,", payload |-> B64Encode(PngBytes(img))]

\* Mutant of ApplyFilter: an unknown kind leaves the picture as it is.
ApplyFilterNoDefault(image, process_type) ==
    IF process_type = "grayscale" THEN ConvertL(image)
    ELSE IF process_type = "blur" THEN Filter(image, BLUR)
    ELSE IF process_type = "sharpen" THEN Filter(image, SHARPEN)
    ELSE IF process_type = "edge" THEN Filter(image, FIND_EDGES)
    ELSE image

\* The branch on process_type.
ApplyFilter(image, process_type) ==
    IF process_type = "grayscale" THEN ConvertL(image)
    ELSE IF process_type = "blur" THEN Filter(image, BLUR)
    ELSE IF process_type = "sharpen" THEN Filter(image, SHARPEN)
    ELSE IF process_type = "edge" THEN Filter(image, FIND_EDGES)
    ELSE ConvertL(image)

Error(code, msg) == [status |-> code, body |-> [error |-> msg]]

\* POST /process-image
process_image(file, type) ==
    IF ~file.present THEN Error(400, "No image file provided")
    ELSE IF file.filename = "" THEN Error(400, "No image file selected")
    ELSE LET process_type == FormGet(type, "grayscale")
         IN  IF ~file.decodable THEN Error(500, "cannot identify image file")
             ELSE [status |-> 200,
                   body |-> [success |-> TRUE,
                             processed_image |->
                                 DataUri(ApplyFilter(ImageOpen(file), process_type)),
                             process_type |-> process_type]]

\* ------------------------------------------------ OpenCV (detector) path
\* cv2.imdecode(nparr, cv2.IMREAD_COLOR): BGR samples, or None.
Imdecode(file) ==
    IF file.decodable
    THEN [ok |-> TRUE,
          grid |-> [r \in DOMAIN file.grid |->
                      [c \in DOMAIN file.grid[r] |->
                         << file.grid[r][c][3], file.grid[r][c][2], file.grid[r][c][1] >>]]]
    ELSE [ok |-> FALSE, grid |-> <<>>]

\* cv2.cvtColor(image, cv2.COLOR_BGR2GRAY), in the library's fixed point.
LumaBGR(p) == (1868 * p[1] + 9617 * p[2] + 4899 * p[3] + 8192) \div 16384

CvtGray(grid) ==
    [r \in DOMAIN grid |-> [c \in DOMAIN grid[r] |-> LumaBGR(grid[r][c])]]

Box(x, y, w, h) == [x |-> x, y |-> y, w |-> w, h |-> h]

\* What the pretrained cascade yields on each fixture picture, in the
\* order of its scan (which is not sorted by position).
CascadeFaces(k) ==
    IF k = 1 THEN << Box(1, 0, 2, 3) >>
    ELSE IF k = 2 THEN << Box(0, 1, 3, 2) >>
    ELSE IF k = 3 THEN << Box(1, 1, 2, 1), Box(0, 0, 1, 2) >>
    ELSE <<>>

\* face_cascade.detectMultiScale(gray, 1.1, 4)
DetectMultiScale(gray) ==
    IF \E k \in Fixtures : gray = CvtGray(Imdecode(Picture(FixtureGrid(k))).grid)
    THEN CascadeFaces(CHOOSE k \in Fixtures :
                         gray = CvtGray(Imdecode(Picture(FixtureGrid(k))).grid))
    ELSE <<>>

\* Mutant of FacesData: width and height are swapped in the corners.
FacesDataSwapped(boxes) ==
    [i \in 1..Len(boxes) |->
        [id |-> i,
         location |-> [top |-> boxes[i].y,
                       right |-> boxes[i].x + boxes[i].h,
                       bottom |-> boxes[i].y + boxes[i].w,
                       left |-> boxes[i].x],
         name |-> "Unknown",
         confidence |-> "0.8",
         is_known |-> FALSE]]

\* for i, (x, y, w, h) in enumerate(faces): faces_data.append({...})
FacesData(boxes) ==
    [i \in 1..Len(boxes) |->
        [id |-> i,
         location |-> [top |-> boxes[i].y,
                       right |-> boxes[i].x + boxes[i].w,
                       bottom |-> boxes[i].y + boxes[i].h,
                       left |-> boxes[i].x],
         name |-> "Unknown",
         confidence |-> "0.8",
         is_known |-> FALSE]]

\* POST /detect-faces
detect_faces(file) ==
    IF ~file.present THEN Error(400, "No image file provided")
    ELSE IF file.filename = "" THEN Error(400, "No image file selected")
    ELSE LET image == Imdecode(file)
         IN  IF ~image.ok THEN Error(400, "Invalid image format")
             ELSE LET faces_data == FacesData(DetectMultiScale(CvtGray(image.grid)))
                  IN  [status |-> 200,
                       body |-> [success |-> TRUE,
                                 faces_detected |-> Len(faces_data),
                                 faces |-> faces_data,
                                 image_size |-> [width |-> Width(image.grid),
                                                 height |-> Height(image.grid)]]]

\* image[y:y+h, x:x+w].tolist(): rows y..y+h-1, columns x..x+w-1 (0-based),
\* cut off at the picture's edge as a slice is.
Min(a, b) == IF a < b THEN a ELSE b

Crop(grid, box) ==
    LET rows == Min(box.y + box.h, Height(grid)) - box.y
        cols == Min(box.x + box.w, Width(grid)) - box.x
    IN  [r \in 1..rows |-> [c \in 1..cols |-> grid[box.y + r][box.x + c]]]

\* The dict register_face appends to face_database['faces'].
FaceRecord(grid, box) ==
    [region |-> Crop(grid, box),
     location |-> [x |-> box.x, y |-> box.y, w |-> box.w, h |-> box.h]]

\* register_face up to the first access of face_database: the response of
\* an early return, or the name and the record to store.
Proceed(name, face) == [status |-> 0, body |-> [name |-> name, face |-> face]]

\* Mutant of register_check: no check for more than one face; the first
\* face found is registered.
register_check_first_face(file, namefield) ==
    IF ~file.present THEN Error(400, "No image file provided")
    ELSE LET name == Strip(FormGet(namefield, <<>>))
         IN  IF file.filename = "" THEN Error(400, "No image file selected")
             ELSE IF name = <<>> THEN Error(400, "Name is required")
             ELSE LET image == Imdecode(file)
                  IN  IF ~image.ok THEN Error(400, "Invalid image format")
                      ELSE LET faces_found == DetectMultiScale(CvtGray(image.grid))
                           IN  IF Len(faces_found) = 0
                               THEN Error(400, "No face found in the image")
                               ELSE Proceed(name, FaceRecord(image.grid, faces_found[1]))

\* Mutant of register_check: the picture is decoded before the name is
\* looked at.
register_check_decode_first(file, namefield) ==
    IF ~file.present THEN Error(400, "No image file provided")
    ELSE LET name == Strip(FormGet(namefield, <<>>))
             image == Imdecode(file)
         IN  IF file.filename = "" THEN Error(400, "No image file selected")
             ELSE IF ~image.ok THEN Error(400, "Invalid image format")
             ELSE IF name = <<>> THEN Error(400, "Name is required")
             ELSE LET faces_found == DetectMultiScale(CvtGray(image.grid))
                  IN  IF Len(faces_found) = 0
                      THEN Error(400, "No face found in the image")
                      ELSE IF Len(faces_found) > 1
                      THEN Error(400, "Multiple faces found. Please use an image with only one face")
                      ELSE Proceed(name, FaceRecord(image.grid, faces_found[1]))

register_check(file, namefield) ==
    IF ~file.present THEN Error(400, "No image file provided")
    ELSE LET name == Strip(FormGet(namefield, <<>>))
         IN  IF file.filename = "" THEN Error(400, "No image file selected")
             ELSE IF name = <<>> THEN Error(400, "Name is required")
             ELSE LET image == Imdecode(file)
                  IN  IF ~image.ok THEN Error(400, "Invalid image format")
                      ELSE LET faces_found == DetectMultiScale(CvtGray(image.grid))
                           IN  IF Len(faces_found) = 0
                               THEN Error(400, "No face found in the image")
                               ELSE IF Len(faces_found) > 1
                               THEN Error(400, "Multiple faces found. Please use an image with only one face")
                               ELSE Proceed(name, FaceRecord(image.grid, faces_found[1]))

\* ------------------------------------------------------------- the state
VARIABLES
    faces,       \* face_database['faces']
    names,       \* face_database['names']
    attendance,  \* face_database['attendance']
    faceBy,      \* history: the request that appended each entry of faces
    nameBy,      \* history: the request that appended each entry of names
    pc,          \* where each worker thread stands in the handler it runs
    local,       \* the local variables of that handler
    nextId,      \* history: the number the next register-face request gets
    asked,       \* history: the stripped name of each accepted registration
    last         \* the request answered most recently, its number and its response

vars == << faces, names, attendance, faceBy, nameBy, pc, local, nextId, asked, last >>

NoField == [present |-> FALSE, value |-> <<>>]
NoType == [present |-> FALSE, value |-> ""]
Request(op, file, name, type) == [op |-> op, file |-> file, name |-> name, type |-> type]
NoRequest == Request("none", NoFile, NoField, NoType)
NoFace == [region |-> <<>>, location |-> [x |-> 0, y |-> 0, w |-> 0, h |-> 0]]
NoLocal == [req |-> NoRequest, id |-> 0, name |-> <<>>, face |-> NoFace, total |-> 0]

Init ==
    /\ faces = <<>>
    /\ names = <<>>
    /\ attendance = <<>>
    /\ faceBy = <<>>
    /\ nameBy = <<>>
    /\ pc = [t \in Threads |-> "idle"]
    /\ local = [t \in Threads |-> NoLocal]
    /\ nextId = 1
    /\ asked = <<>>
    /\ last = [req |-> NoRequest, id |-> 0, resp |-> [status |-> 0, body |-> <<>>]]

Answer(req, id, resp) == last' = [req |-> req, id |-> id, resp |-> resp]

\* POST /process-image: the whole handler; it reads no shared state.
ProcessImage(t, file, type) ==
    /\ pc[t] = "idle"
    /\ Answer(Request("process-image", file, NoField, type), 0, process_image(file, type))
    /\ UNCHANGED << faces, names, attendance, faceBy, nameBy, pc, local, nextId, asked >>

\* POST /detect-faces: the whole handler; it reads no shared state.
DetectFaces(t, file) ==
    /\ pc[t] = "idle"
    /\ Answer(Request("detect-faces", file, NoField, NoType), 0, detect_faces(file))
    /\ UNCHANGED << faces, names, attendance, faceBy, nameBy, pc, local, nextId, asked >>

\* POST /register-face, an early return: the request is answered with the
\* error and nothing else happens.
RegisterReject(t, file, name) ==
    /\ pc[t] = "idle"
    /\ register_check(file, name).status # 0
    /\ Answer(Request("register-face", file, name, NoType), 0, register_check(file, name))
    /\ UNCHANGED << faces, names, attendance, faceBy, nameBy, pc, local, nextId, asked >>

\* POST /register-face, validation passed: the thread holds the stripped
\* name and the face record and goes on to the first append.
RegisterAccept(t, file, name) ==
    /\ pc[t] = "idle"
    /\ nextId <= MaxRegistrations
    /\ register_check(file, name).status = 0
    /\ pc' = [pc EXCEPT ![t] = "append_face"]
    /\ local' = [local EXCEPT ![t] =
                    [req |-> Request("register-face", file, name, NoType),
                     id |-> nextId,
                     name |-> register_check(file, name).body.name,
                     face |-> register_check(file, name).body.face,
                     total |-> 0]]
    /\ nextId' = nextId + 1
    /\ asked' = Append(asked, register_check(file, name).body.name)
    /\ UNCHANGED << faces, names, attendance, faceBy, nameBy, last >>

\* Mutant of RegisterAppendFace: the record is inserted at the front.
RegisterInsertFace(t) ==
    /\ pc[t] = "append_face"
    /\ faces' = << local[t].face >> \o faces
    /\ faceBy' = << local[t].id >> \o faceBy
    /\ pc' = [pc EXCEPT ![t] = "append_name"]
    /\ UNCHANGED << names, attendance, nameBy, local, nextId, asked, last >>

\* face_database['faces'].append({...})
RegisterAppendFace(t) ==
    /\ pc[t] = "append_face"
    /\ faces' = Append(faces, local[t].face)
    /\ faceBy' = Append(faceBy, local[t].id)
    /\ pc' = [pc EXCEPT ![t] = "append_name"]
    /\ UNCHANGED << names, attendance, nameBy, local, nextId, asked, last >>

\* Mutant of RegisterAppendName: a name already in the list is not added.
RegisterAppendNameOnce(t) ==
    /\ pc[t] = "append_name"
    /\ names' = IF \E i \in 1..Len(names) : names[i] = local[t].name
                THEN names ELSE Append(names, local[t].name)
    /\ nameBy' = IF \E i \in 1..Len(names) : names[i] = local[t].name
                 THEN nameBy ELSE Append(nameBy, local[t].id)
    /\ pc' = [pc EXCEPT ![t] = "respond"]
    /\ UNCHANGED << faces, attendance, faceBy, local, nextId, asked, last >>

\* Mutant of RegisterAppendName: registering also logs an attendance record.
RegisterAppendNameAndAttend(t) ==
    /\ pc[t] = "append_name"
    /\ names' = Append(names, local[t].name)
    /\ nameBy' = Append(nameBy, local[t].id)
    /\ attendance' = Append(attendance, [name |-> local[t].name])
    /\ pc' = [pc EXCEPT ![t] = "respond"]
    /\ UNCHANGED << faces, faceBy, local, nextId, asked, last >>

\* face_database['names'].append(name)
RegisterAppendName(t) ==
    /\ pc[t] = "append_name"
    /\ names' = Append(names, local[t].name)
    /\ nameBy' = Append(nameBy, local[t].id)
    /\ pc' = [pc EXCEPT ![t] = "respond"]
    /\ UNCHANGED << faces, attendance, faceBy, local, nextId, asked, last >>

\* return jsonify({... "total_registered": len(face_database['faces'])})
RegisterRespond(t) ==
    /\ pc[t] = "respond"
    /\ Answer(local[t].req, local[t].id,
              [status |-> 200,
               body |-> [success |-> TRUE,
                         message |-> [text |-> "Face registered successfully for",
                                      name |-> local[t].name],
                         total_registered |-> Len(faces)]])
    /\ pc' = [pc EXCEPT ![t] = "idle"]
    /\ local' = [local EXCEPT ![t] = NoLocal]
    /\ UNCHANGED << faces, names, attendance, faceBy, nameBy, nextId, asked >>

\* GET /attendance: the whole handler; nothing writes the list it reads.
GetAttendance(t) ==
    /\ pc[t] = "idle"
    /\ Answer(Request("attendance", NoFile, NoField, NoType), 0,
              [status |-> 200,
               body |-> [success |-> TRUE,
                         attendance |-> attendance,
                         total_records |-> Len(attendance)]])
    /\ UNCHANGED << faces, names, attendance, faceBy, nameBy, pc, local, nextId, asked >>

\* GET /registered-faces, building the dict: the names list is taken by
\* reference and len(face_database['faces']) is read now.
GetRegisteredFacesRead(t) ==
    /\ pc[t] = "idle"
    /\ pc' = [pc EXCEPT ![t] = "serialize"]
    /\ local' = [local EXCEPT ![t] =
                    [NoLocal EXCEPT !.req = Request("registered-faces", NoFile, NoField, NoType),
                                    !.total = Len(faces)]]
    /\ UNCHANGED << faces, names, attendance, faceBy, nameBy, nextId, asked, last >>

\* GET /registered-faces, jsonify: the names list is serialised as it is now.
GetRegisteredFacesRespond(t) ==
    /\ pc[t] = "serialize"
    /\ Answer(local[t].req, 0,
              [status |-> 200,
               body |-> [success |-> TRUE,
                         registered_faces |-> names,
                         total_registered |-> local[t].total]])
    /\ pc' = [pc EXCEPT ![t] = "idle"]
    /\ local' = [local EXCEPT ![t] = NoLocal]
    /\ UNCHANGED << faces, names, attendance, faceBy, nameBy, nextId, asked >>

\* The handlers that never touch face_database, on every request of the
\* input sets.
StatelessNext ==
    \E t \in Threads :
        \/ \E f \in Files, ty \in TypeFields : ProcessImage(t, f, ty)
        \/ \E f \in Files : DetectFaces(t, f)
        \/ \E f \in Files, n \in NameFields : RegisterReject(t, f, n)

Stateless == Init /\ [][StatelessNext]_vars

\* The requests the clients of the loaded service send: garbage or one of
\* the pictures; a name typed without trailing blanks; no filter kind, a
\* known one or an unknown one.
WorkFiles == {GarbageFile} \cup {Picture(g) : g \in Grids}
WorkNames == {n \in NameFields :
                 n.present /\ (n.value = <<>> \/ n.value[Len(n.value)] # " ")}
WorkTypes == {ty \in TypeFields : ty.value \in {"", "blur", "invalid_filter"}}

\* The whole service: every handler, on any thread, in any interleaving.
Next ==
    \E t \in Threads :
        \/ \E f \in WorkFiles, ty \in WorkTypes : ProcessImage(t, f, ty)
        \/ \E f \in WorkFiles : DetectFaces(t, f)
        \/ \E f \in WorkFiles, n \in WorkNames : RegisterReject(t, f, n)
        \/ \E f \in WorkFiles, n \in WorkNames : RegisterAccept(t, f, n)
        \/ RegisterAppendFace(t)
        \/ RegisterAppendName(t)
        \/ RegisterRespond(t)
        \/ GetAttendance(t)
        \/ GetRegisteredFacesRead(t)
        \/ GetRegisteredFacesRespond(t)

Spec == Init /\ [][Next]_vars

\* ------------------------------------------------------------ the claims
\* The request carries an image: a file part is there and it has a name
\* (the handlers answer "No image file selected" to an empty filename).
HasImage(req) == req.file.present /\ req.file.filename # ""

\* The number of boxes the detector yields on the request's picture.
FaceCount(req) == Len(DetectMultiScale(CvtGray(Imdecode(req.file).grid)))

IsPrefix(s, t) == Len(s) <= Len(t) /\ SubSeq(t, 1, Len(s)) = s

Idle == \A t \in Threads : pc[t] = "idle"

\* The step answers a request (the same request answered again with the
\* same response leaves every variable as it was, and is no step).
Answers(op) == last' # last /\ last'.req.op = op

\* C1: in every reachable state, the states between the steps of a
\* register-face request included, faces and names have equal length, and a
\* list-registered response has as many names as its total_registered says.
C1_EqualLength ==
    /\ Len(faces) = Len(names)
    /\ (last.req.op = "registered-faces" /\ last.resp.status = 200)
          => Len(last.resp.body.registered_faces) = last.resp.body.total_registered

\* C2: once all concurrent register-face requests have completed, the face
\* record and the name at every index were appended by the same request.
C2_PairedByRequest ==
    Idle => /\ Len(faceBy) = Len(nameBy)
            /\ \A i \in 1..Len(faceBy) : faceBy[i] = nameBy[i]

\* C4: a successful register-face request appends one face record and the
\* trimmed name at the same index, the new last index of both sequences, so
\* that total-registered grows by exactly 1, and returns the new length.
C4_AppendsAtSameIndex ==
    [][ /\ (faces' # faces) =>
               /\ Len(faces') = Len(faces) + 1
               /\ Len(faces') = Len(names) + 1
        /\ (names' # names) =>
               /\ Len(names') = Len(names) + 1
               /\ Len(names') = Len(faces)
               /\ nameBy'[Len(names')] = faceBy[Len(names')]
        /\ (Answers("register-face") /\ last'.resp.status = 200) =>
               /\ last'.resp.body.total_registered = Len(faces')
               /\ \E i \in 1..Len(faces') :
                     /\ i <= Len(names')
                     /\ faceBy'[i] = last'.id
                     /\ nameBy'[i] = last'.id
                     /\ names'[i] = Strip(FormGet(last'.req.name, <<>>))
                     /\ faces'[i] = FaceRecord(Imdecode(last'.req.file).grid,
                                               DetectMultiScale(CvtGray(Imdecode(last'.req.file).grid))[1])
      ]_vars

TrimmedName(req) == Strip(FormGet(req.name, <<>>))

NoFaceError == Error(400, "No face found in the image")
MultipleFacesError ==
    Error(400, "Multiple faces found. Please use an image with only one face")

\* C3: a register-face request on whose picture the detector finds zero or
\* two or more faces is answered with the no-face or the multiple-faces
\* error, and faces, names and attendance are as they were before it.
C3_RejectLeavesRegistry ==
    [][ ( /\ Answers("register-face")
          /\ HasImage(last'.req)
          /\ TrimmedName(last'.req) # <<>>
          /\ last'.req.file.decodable
          /\ FaceCount(last'.req) # 1 )
        => /\ faces' = faces
           /\ names' = names
           /\ attendance' = attendance
           /\ last'.resp = IF FaceCount(last'.req) = 0
                           THEN NoFaceError ELSE MultipleFacesError
      ]_vars

\* C3 witness: a picture with two faces was refused while the registry
\* already held an entry.
C3_Witness ==
    /\ last.req.op = "register-face"
    /\ HasImage(last.req)
    /\ last.req.file.decodable
    /\ TrimmedName(last.req) # <<>>
    /\ FaceCount(last.req) >= 2
    /\ last.resp = MultipleFacesError
    /\ Len(faces) >= 1
    /\ Len(names) >= 1

Completed(k) == k \in 1..Len(asked) /\ \A t \in Threads : local[t].id # k

\* C6: names are not deduplicated: two completed registrations with the same
\* name leave two records and two entries bearing that name in the registry.
C6_NoDedup ==
    \A k1, k2 \in 1..Len(asked) :
        (k1 < k2 /\ Completed(k1) /\ Completed(k2) /\ asked[k1] = asked[k2]) =>
            /\ Len(faces) >= 2
            /\ \E i, j \in 1..Len(faces) :
                  i # j /\ faceBy[i] = k1 /\ faceBy[j] = k2
            /\ \E i, j \in 1..Len(names) :
                  /\ i # j
                  /\ nameBy[i] = k1 /\ nameBy[j] = k2
                  /\ names[i] = asked[k1] /\ names[j] = asked[k2]

\* C6 witness: two registrations under one name have completed.
C6_Witness ==
    /\ Idle
    /\ Len(asked) = 2
    /\ asked[1] = asked[2]
    /\ Len(names) = 2
    /\ names[1] = names[2]

\* C7: the registry starts empty and every step of every handler leaves the
\* old faces and names as prefixes of the new ones; only a step of a
\* register-face request extends them.
C7_AppendOnly ==
    /\ faces = <<>> /\ names = <<>>
    /\ [][ /\ IsPrefix(faces, faces')
           /\ IsPrefix(names, names')
           /\ (faces' # faces \/ names' # names) =>
                 \E t \in Threads :
                    /\ local[t].req.op = "register-face"
                    /\ pc'[t] # pc[t]
         ]_vars

\* C7 witness: the registry has grown to two entries.
C7_Witness == Len(faces) = 2 /\ Len(names) = 2 /\ faces[1] # faces[2]

\* C8: an unrecognised or absent filter kind succeeds and yields the picture
\* that the kind grayscale yields on the same image.
C8_FallbackGrayscale ==
    ( /\ last.req.op = "process-image"
      /\ HasImage(last.req)
      /\ last.req.file.decodable
      /\ (~last.req.type.present \/ last.req.type.value \notin KnownTypes) )
    => /\ last.resp.status = 200
       /\ last.resp.body.success
       /\ last.resp.body.processed_image =
             process_image(last.req.file,
                           [present |-> TRUE, value |-> "grayscale"]).body.processed_image

\* C8 witness: a request with the kind invalid_filter was answered with a
\* picture.
C8_Witness ==
    /\ last.req.op = "process-image"
    /\ last.req.type.present
    /\ last.req.type.value = "invalid_filter"
    /\ last.resp.status = 200

\* C9: the attendance list is empty in every reachable state and
\* list-attendance returns an empty list and the count 0.
C9_AttendanceEmpty ==
    /\ attendance = <<>>
    /\ last.req.op = "attendance" =>
          /\ last.resp.body.attendance = <<>>
          /\ last.resp.body.total_records = 0

\* C9 witness: list-attendance was answered after a registration.
C9_Witness == last.req.op = "attendance" /\ Len(faces) >= 1 /\ Len(names) >= 1

\* C10: on a picture that decodes, detect-faces succeeds and returns one
\* face per box in the detector's order, the k-th with id k, confidence 0.8,
\* is_known false, name "Unknown" and the corners of the k-th box.
C10_DetectResponse ==
    ( /\ last.req.op = "detect-faces"
      /\ HasImage(last.req)
      /\ last.req.file.decodable )
    => LET boxes == DetectMultiScale(CvtGray(Imdecode(last.req.file).grid))
           body == last.resp.body
       IN  /\ last.resp.status = 200
           /\ body.success
           /\ body.faces_detected = Len(boxes)
           /\ Len(body.faces) = Len(boxes)
           /\ \A k \in 1..Len(boxes) :
                 /\ body.faces[k].id = k
                 /\ body.faces[k].confidence = "0.8"
                 /\ body.faces[k].is_known = FALSE
                 /\ body.faces[k].name = "Unknown"
                 /\ body.faces[k].location.top = boxes[k].y
                 /\ body.faces[k].location.left = boxes[k].x
                 /\ body.faces[k].location.right = boxes[k].x + boxes[k].w
                 /\ body.faces[k].location.bottom = boxes[k].y + boxes[k].h

\* C10 witness: a picture with two faces was answered, the second box lying
\* above and left of the first.
C10_Witness ==
    /\ last.req.op = "detect-faces"
    /\ last.resp.status = 200
    /\ last.resp.body.faces_detected = 2
    /\ last.resp.body.faces[2].location.top < last.resp.body.faces[1].location.top

====
